---- MODULE Spec2Model ----
(***************************************************************************)
(* A model of the header-only logger of src/herrlog.hh (the last revision  *)
(* in that file, lines 341-688): the LogType bit flags, the static         *)
(* configuration of class Logger, the placeholder formatter                *)
(* print_to_stream, the sink writer log and the six level operations.      *)
(*                                                                         *)
(* Strings are sequences of characters; a character is any TLA+ string,    *)
(* and only "{" and "}" are looked at by the formatter.                    *)
(***************************************************************************)
EXTENDS Integers, Sequences, FiniteSets, TLC

(***************************************************************************)
(* Bounds of the model.                                                    *)
(***************************************************************************)
\* logging operations a sequential run makes; no call follows the last one
MaxCalls == 1
\* logging operations the threads of a concurrent run make in total
MaxConcCalls == 2
\* caller threads of the concurrent specification
NThreads == 2
\* length of a format string given to the formatter
MaxFmtLen == 4
\* number of arguments given to the formatter
MaxArgs == 2

(***************************************************************************)
(* LogType (src/herrlog.hh:374-425): an 8-bit flag set.                    *)
(***************************************************************************)
Trace == 1
Debug == 2
Info == 4
Error == 8
Warn == 16
Fatal == 32
All == 63
None == 0

\* width of std::uint8_t
Uint8Bits == 8

Levels == {Trace, Debug, Info, Error, Warn, Fatal}

\* every value a LogType built from the enumerators and | can hold
LogTypes == None..All

\* bitwise and / or of two uint8 values, bit by bit
RECURSIVE BitAnd(_, _, _)
BitAnd(a, b, n) ==
    IF n = 0 THEN 0
    ELSE (IF a % 2 = 1 /\ b % 2 = 1 THEN 1 ELSE 0)
         + 2 * BitAnd(a \div 2, b \div 2, n - 1)

RECURSIVE BitOr(_, _, _)
BitOr(a, b, n) ==
    IF n = 0 THEN 0
    ELSE (IF a % 2 = 1 \/ b % 2 = 1 THEN 1 ELSE 0)
         + 2 * BitOr(a \div 2, b \div 2, n - 1)

\* LogType::operator| : the union of two flag sets
LogTypeOr(a, b) == BitOr(a, b, Uint8Bits)

\* a plausible slip in operator&: equality instead of intersection
LogTypeAndEq(a, b) == a = b

\* LogType::operator& : true iff the two flag sets intersect
LogTypeAnd(a, b) == BitAnd(a, b, Uint8Bits) # 0

(***************************************************************************)
(* ascii_colors (src/herrlog.hh:358-366) and the labels and colors the     *)
(* level operations pass to log.                                           *)
(***************************************************************************)
reset_color == "\\033[0m"

LevelName(L) ==
    CASE L = Trace -> "TRACE"
      [] L = Debug -> "DEBUG"
      [] L = Info  -> " INFO"
      [] L = Error -> "ERROR"
      [] L = Warn  -> " WARN"
      [] L = Fatal -> "FATAL"

LevelColor(L) ==
    CASE L = Trace -> "\\033[1;37m"
      [] L = Debug -> "\\033[1;34m"
      [] L = Info  -> "\\033[1;32m"
      [] L = Error -> "\\033[1;31m"
      [] L = Warn  -> "\\033[1;33m"
      [] L = Fatal -> "\\033[41m"

(***************************************************************************)
(* Logger::print_to_stream (src/herrlog.hh:451-473).  The variadic         *)
(* overload scans for the first "{}", writes the first argument in its     *)
(* place and recurses on the rest of the format with the rest of the       *)
(* arguments; with no argument left the base overload copies the format.   *)
(* A C string ends at its terminator, so format[index + 1] past the last   *)
(* character is the terminator and never "}".                              *)
(***************************************************************************)
Drop(s, n) == SubSeq(s, n + 1, Len(s))

\* the base overload: every character copied
print_to_stream_base(format) == format

\* index of the first "{}" at or after index i, 0 when there is none
RECURSIVE FirstToken(_, _)
FirstToken(format, i) ==
    IF i >= Len(format) THEN 0
    ELSE IF format[i] = "{" /\ format[i + 1] = "}" THEN i
    ELSE FirstToken(format, i + 1)

\* a plausible slip: the recursion resumes one character early, at the "}"
RECURSIVE print_to_stream_off(_, _)
print_to_stream_off(format, args) ==
    IF args = <<>> THEN print_to_stream_base(format)
    ELSE LET i == FirstToken(format, 1) IN
         IF i = 0 THEN format
         ELSE SubSeq(format, 1, i - 1) \o Head(args)
              \o print_to_stream_off(Drop(format, i), Tail(args))

\* a plausible slip: the argument is spliced into the format and scanned
\* again with the rest of it
RECURSIVE print_to_stream_rescan(_, _)
print_to_stream_rescan(format, args) ==
    IF args = <<>> THEN print_to_stream_base(format)
    ELSE LET i == FirstToken(format, 1) IN
         IF i = 0 THEN format
         ELSE SubSeq(format, 1, i - 1)
              \o print_to_stream_rescan(Head(args) \o Drop(format, i + 1),
                                        Tail(args))

RECURSIVE print_to_stream(_, _)
print_to_stream(format, args) ==
    IF args = <<>> THEN print_to_stream_base(format)
    ELSE LET i == FirstToken(format, 1) IN
         IF i = 0 THEN format
         ELSE SubSeq(format, 1, i - 1) \o Head(args)
              \o print_to_stream(Drop(format, i + 1), Tail(args))


(***************************************************************************)
(* The environment: caller threads, the streams a line can be written to,  *)
(* the devices behind them and the paths of the file system.               *)
(***************************************************************************)
Threads == 1..NThreads

\* the thread of the sequential specification: the first one
Main == CHOOSE t \in Threads : \A u \in Threads : t <= u

\* paths at which std::ofstream::open succeeds, and one at which it fails
Files == {"a.log", "b.log"}
BadPath == "/no/such/dir/x.log"
Paths == Files \cup {BadPath}

\* std::cout, the static member Logger::output_file, a caller's own stream
Streams == {"cout", "output_file", "custom"}

\* the streams a caller can hand to set_output_buffer
CallerStreams == {"cout", "custom"}

Devices == {"console", "custom"} \cup Files

default_datetime_format == "%Y-%m-%d %H:%M:%S"
DatetimeFormats == {default_datetime_format, "%H:%M:%S"}

\* the level masks the callers of the model pass to set_type
Masks == {None, All} \cup Levels
         \cup {LogTypeOr(Error, Info), LogTypeOr(Error, Debug),
               LogTypeOr(Trace, LogTypeOr(Warn, Fatal)),
               LogTypeOr(LogTypeOr(Trace, Debug),
                         LogTypeOr(Info, LogTypeOr(Warn, Fatal)))}

\* the format string and arguments of the callers' logging calls
UserFormat == <<"m", "{", "}">>
UserArgs == << <<"1">> >>

\* the self-reported failure of set_output_file_name
FailFormat == <<"Failed to open ", "{", "}">>

VARIABLES
    log_type,          \* Logger::log_type, a LogType
    output_file_name,  \* Logger::output_file_name
    output_buffer,     \* Logger::output_buffer, the stream pointed to
    is_color_output,   \* Logger::is_color_output
    datetime_format,   \* Logger::datetime_format
    log_mutex,         \* Logger::log_mutex: 0 or the thread holding it
    output_file,       \* Logger::output_file: [is_open, path]
    put_area,          \* per stream: chunks written and not yet flushed
    device,            \* per device: chunks that reached it, in order
    process,           \* "running", "exit_failure" or "abort"
    pc,                \* per thread: where it is in its current call
    frame,             \* per thread: the call it is in
    ncalls,            \* logging operations invoked so far
    quota,             \* logging operations the callers make in this run
    time_reads         \* reads of the system clock so far

conf == <<log_type, output_buffer, is_color_output, datetime_format>>
files == <<output_file_name, output_file>>
io == <<put_area, device>>
vars == <<log_type, output_file_name, output_buffer, is_color_output,
          datetime_format, log_mutex, output_file, put_area, device,
          process, pc, frame, ncalls, quota, time_reads>>

\* a thread outside any call
NoFrame == [op |-> "none", level |-> None, arg |-> "", format |-> <<>>,
            args |-> <<>>, id |-> 0, ss |-> <<>>, stream |-> ""]

\* std::strftime into char[100] with the local time: both formats fit
Strftime(format) ==
    IF format = default_datetime_format THEN "2023-12-31 12:41:09"
    ELSE "12:41:09"

\* the device a stream writes to; "" for an ofstream that is not open
DeviceOf(stream) ==
    CASE stream = "cout" -> "console"
      [] stream = "custom" -> "custom"
      [] stream = "output_file" ->
            IF output_file.is_open THEN output_file.path ELSE ""

(***************************************************************************)
(* Static member definitions (src/herrlog.hh:675-681).                     *)
(***************************************************************************)
\* a plausible slip: color output starts switched off
Init_plain ==
    /\ log_type = All
    /\ output_file_name = ""
    /\ output_buffer = "cout"
    /\ is_color_output = FALSE
    /\ datetime_format = default_datetime_format
    /\ log_mutex = 0
    /\ output_file = [is_open |-> FALSE, path |-> ""]
    /\ put_area = [s \in Streams |-> <<>>]
    /\ device = [d \in Devices |-> <<>>]
    /\ process = "running"
    /\ pc = [t \in Threads |-> "idle"]
    /\ frame = [t \in Threads |-> NoFrame]
    /\ ncalls = 0
    /\ quota = MaxCalls
    /\ time_reads = 0

Init ==
    /\ log_type = All
    /\ output_file_name = ""
    /\ output_buffer = "cout"
    /\ is_color_output = TRUE
    /\ datetime_format = default_datetime_format
    /\ log_mutex = 0
    /\ output_file = [is_open |-> FALSE, path |-> ""]
    /\ put_area = [s \in Streams |-> <<>>]
    /\ device = [d \in Devices |-> <<>>]
    /\ process = "running"
    /\ pc = [t \in Threads |-> "idle"]
    /\ frame = [t \in Threads |-> NoFrame]
    /\ ncalls = 0
    /\ quota = MaxCalls
    /\ time_reads = 0

\* thread t can start a call: it is in none, and the run has calls left
Idle(t) == process = "running" /\ pc[t] = "idle" /\ ncalls < quota

\* thread t is at location loc of the call it is in
At(t, loc) == process = "running" /\ pc[t] = loc

Goto(t, loc, fr) ==
    /\ pc' = [pc EXCEPT ![t] = loc]
    /\ frame' = [frame EXCEPT ![t] = fr]
    /\ UNCHANGED quota

\* the body of an operation is over; its frame lives until it returns
Done(t) == Goto(t, "return", frame[t])


(***************************************************************************)
(* Stream primitives.  A write appends to the stream's put area; a flush   *)
(* moves the put area to the device.  An ofstream that is not open takes   *)
(* no characters: the write fails and sets the stream's error state.       *)
(***************************************************************************)
Usable(stream) == DeviceOf(stream) # ""

Chunk(id, text) == [id |-> id, text |-> text]

StreamWrite(stream, chunk) ==
    put_area' = IF Usable(stream)
                THEN [put_area EXCEPT ![stream] = Append(@, chunk)]
                ELSE put_area

StreamFlush(stream) ==
    device' = IF Usable(stream)
              THEN [device EXCEPT ![DeviceOf(stream)] = @ \o put_area[stream]]
              ELSE device

(***************************************************************************)
(* The setters (src/herrlog.hh:519-574).  A call binds its argument in the *)
(* caller's frame; the body then runs as one step.                         *)
(***************************************************************************)
Invoke(t, op, arg) ==
    /\ Idle(t)
    /\ Goto(t, op, [NoFrame EXCEPT !.op = op, !.arg = arg])
    /\ UNCHANGED <<conf, files, io, log_mutex, process, ncalls, time_reads>>

call_set_type(t, M) ==
    /\ Invoke(t, "set_type", M)
call_set_output_file_name(t, p) ==
    /\ Invoke(t, "set_output_file_name", p)
call_set_datetime_format(t, f) ==
    /\ Invoke(t, "set_datetime_format", f)
call_set_output_buffer(t, s) ==
    /\ Invoke(t, "set_output_buffer", s)
call_set_is_color_output(t, b) ==
    /\ Invoke(t, "set_is_color_output", b)

\* a plausible slip: the new flags are merged into the old ones
set_type_merge(t) ==
    /\ At(t, "set_type")
    /\ log_type' = LogTypeOr(log_type, frame[t].arg)
    /\ Done(t)
    /\ UNCHANGED <<output_buffer, is_color_output, datetime_format, files,
                   io, log_mutex, process, ncalls, time_reads>>

\* Logger::set_type
set_type(t) ==
    /\ At(t, "set_type")
    /\ log_type' = frame[t].arg
    /\ Done(t)
    /\ UNCHANGED <<output_buffer, is_color_output, datetime_format, files,
                   io, log_mutex, process, ncalls, time_reads>>

\* Logger::set_datetime_format
set_datetime_format(t) ==
    /\ At(t, "set_datetime_format")
    /\ datetime_format' = frame[t].arg
    /\ Done(t)
    /\ UNCHANGED <<log_type, output_buffer, is_color_output, files, io,
                   log_mutex, process, ncalls, time_reads>>

\* a plausible slip: selecting a stream turns the color flag back on
set_output_buffer_recolor(t) ==
    /\ At(t, "set_output_buffer")
    /\ output_buffer' = frame[t].arg
    /\ is_color_output' = TRUE
    /\ Done(t)
    /\ UNCHANGED <<log_type, datetime_format, files, io, log_mutex, process,
                   ncalls, time_reads>>

\* Logger::set_output_buffer
set_output_buffer(t) ==
    /\ At(t, "set_output_buffer")
    /\ output_buffer' = frame[t].arg
    /\ Done(t)
    /\ UNCHANGED <<log_type, is_color_output, datetime_format, files, io,
                   log_mutex, process, ncalls, time_reads>>

\* Logger::set_is_color_output
set_is_color_output(t) ==
    /\ At(t, "set_is_color_output")
    /\ is_color_output' = frame[t].arg
    /\ Done(t)
    /\ UNCHANGED <<log_type, output_buffer, datetime_format, files, io,
                   log_mutex, process, ncalls, time_reads>>

(***************************************************************************)
(* Logger::set_output_file_name (src/herrlog.hh:531-547).  The move        *)
(* assignment closes the file held so far, which writes out what its put   *)
(* area holds; the temporary std::ofstream and the second open both        *)
(* truncate the file at the new path.  When the second open fails the      *)
(* function calls Logger::error and, if that returns, returns.             *)
(***************************************************************************)
\* the devices once the old file is closed and the one at path p truncated
Reopened(p) ==
    LET old == DeviceOf("output_file")
        closed == IF old = "" THEN device
                  ELSE [device EXCEPT ![old] = @ \o put_area["output_file"]]
    IN  IF p \in Files THEN [closed EXCEPT ![p] = <<>>] ELSE closed

\* the frame of a call of a level operation
LogFrame(op, L, format, args, id) ==
    [NoFrame EXCEPT !.op = op, !.level = L, !.format = format,
                    !.args = args, !.id = id]

set_output_file_name(t) ==
    LET p == frame[t].arg IN
    /\ At(t, "set_output_file_name")
    /\ output_file_name' = p
    /\ device' = Reopened(p)
    /\ put_area' = [put_area EXCEPT !["output_file"] = <<>>]
    /\ IF p \in Files
       THEN /\ output_file' = [is_open |-> TRUE, path |-> p]
            /\ output_buffer' = "output_file"
            /\ is_color_output' = FALSE
            /\ Done(t)
            /\ UNCHANGED ncalls
       ELSE /\ output_file' = [is_open |-> FALSE, path |-> ""]
            /\ UNCHANGED <<output_buffer, is_color_output>>
            /\ IF LogTypeAnd(log_type, Error)
               THEN /\ Goto(t, "log", LogFrame("set_output_file_name", Error,
                                               FailFormat, << <<p>> >>,
                                               ncalls + 1))
                    /\ ncalls' = ncalls + 1
               ELSE /\ Done(t)
                    /\ UNCHANGED ncalls
    /\ UNCHANGED <<log_type, datetime_format, log_mutex, process, time_reads>>


(***************************************************************************)
(* The level operations (src/herrlog.hh:585-672).  Each tests its bit in   *)
(* log_type; when the bit is clear the call returns at once, otherwise it  *)
(* goes through Logger::log and then does what the level prescribes.       *)
(* (info sleeps for a second before it logs; the sleep changes no state.)  *)
(***************************************************************************)
\* a plausible slip: the level test is dropped
Dispatch_unfiltered(t, op, L) ==
    /\ Idle(t)
    /\ ncalls' = ncalls + 1
    /\ Goto(t, "log", LogFrame(op, L, UserFormat, UserArgs, ncalls + 1))
    /\ UNCHANGED <<conf, files, io, log_mutex, process, time_reads>>

Dispatch(t, op, L) ==
    /\ Idle(t)
    /\ ncalls' = ncalls + 1
    /\ IF LogTypeAnd(log_type, L)
       THEN Goto(t, "log", LogFrame(op, L, UserFormat, UserArgs, ncalls + 1))
       ELSE Goto(t, "return", LogFrame(op, L, UserFormat, UserArgs,
                                       ncalls + 1))
    /\ UNCHANGED <<conf, files, io, log_mutex, process, time_reads>>

trace(t) ==
    /\ Dispatch(t, "trace", Trace)
debug(t) ==
    /\ Dispatch(t, "debug", Debug)
info(t) ==
    /\ Dispatch(t, "info", Info)
error(t) ==
    /\ Dispatch(t, "error", Error)
warn(t) ==
    /\ Dispatch(t, "warn", Warn)
fatal(t) ==
    /\ Dispatch(t, "fatal", Fatal)

(***************************************************************************)
(* Logger::log (src/herrlog.hh:484-510), step by step.                     *)
(***************************************************************************)
\* a plausible slip: the color codes are written whatever the flag says
Heading_colored(name, color) ==
    <<color, "[", name, " ", Strftime(datetime_format), "]", reset_color,
      " ">>

\* lines 494-497: the heading, wrapped in color codes when color is on
Heading(name, color) ==
    (IF is_color_output THEN <<color>> ELSE <<>>)
    \o <<"[", name, " ", Strftime(datetime_format), "]">>
    \o (IF is_color_output THEN <<reset_color>> ELSE <<>>)
    \o <<" ">>

\* the stringstream ss once the heading and the message are in it
Line(name, color, format, args) ==
    Heading(name, color) \o print_to_stream(format, args)

\* lines 487-499: the clock is read, the line is built
log_build(t) ==
    /\ At(t, "log")
    /\ time_reads' = time_reads + 1
    /\ Goto(t, "lock",
            [frame[t] EXCEPT !.ss = Line(LevelName(frame[t].level),
                                         LevelColor(frame[t].level),
                                         frame[t].format, frame[t].args)])
    /\ UNCHANGED <<conf, files, io, log_mutex, process, ncalls>>

\* a plausible slip: the write is not guarded by the mutex
log_lock_unguarded(t) ==
    /\ At(t, "lock")
    /\ log_mutex' = t
    /\ Goto(t, "write", frame[t])
    /\ UNCHANGED <<conf, files, io, process, ncalls, time_reads>>

\* line 501: std::lock_guard acquires log_mutex
log_lock(t) ==
    /\ At(t, "lock")
    /\ log_mutex = 0
    /\ log_mutex' = t
    /\ Goto(t, "write", frame[t])
    /\ UNCHANGED <<conf, files, io, process, ncalls, time_reads>>

\* a plausible slip: the line always goes to std::cout
log_write_cout(t) ==
    /\ At(t, "write")
    /\ StreamWrite("cout", Chunk(frame[t].id, frame[t].ss))
    /\ Goto(t, "newline", [frame[t] EXCEPT !.stream = "cout"])
    /\ UNCHANGED <<conf, files, device, log_mutex, process, ncalls,
                   time_reads>>

\* line 502, first insertion: *output_buffer << ss.str()
log_write(t) ==
    /\ At(t, "write")
    /\ StreamWrite(output_buffer, Chunk(frame[t].id, frame[t].ss))
    /\ Goto(t, "newline", [frame[t] EXCEPT !.stream = output_buffer])
    /\ UNCHANGED <<conf, files, device, log_mutex, process, ncalls,
                   time_reads>>

\* line 502, second insertion, into the same stream: << '\n'
log_newline(t) ==
    /\ At(t, "newline")
    /\ StreamWrite(frame[t].stream, Chunk(frame[t].id, <<"\n">>))
    /\ Goto(t, "flush", frame[t])
    /\ UNCHANGED <<conf, files, device, log_mutex, process, ncalls,
                   time_reads>>

\* line 509: output_buffer->flush()
log_flush(t) ==
    /\ At(t, "flush")
    /\ StreamFlush(output_buffer)
    /\ put_area' = [put_area EXCEPT ![output_buffer] = <<>>]
    /\ Goto(t, "unlock", frame[t])
    /\ UNCHANGED <<conf, files, log_mutex, process, ncalls, time_reads>>

\* a plausible slip: log returns with the mutex still locked
log_unlock_leak(t) ==
    /\ At(t, "unlock")
    /\ Goto(t, "post", frame[t])
    /\ UNCHANGED <<conf, files, io, log_mutex, process, ncalls, time_reads>>

\* line 510: the lock_guard goes out of scope, log returns to the level
\* operation
log_unlock(t) ==
    /\ At(t, "unlock")
    /\ log_mutex' = 0
    /\ Goto(t, "post", frame[t])
    /\ UNCHANGED <<conf, files, io, process, ncalls, time_reads>>

(***************************************************************************)
(* What follows the call of log in each level operation.                   *)
(***************************************************************************)
\* trace, debug, info, warn: the operation ends
level_done(t) ==
    /\ At(t, "post")
    /\ frame[t].level \in {Trace, Debug, Info, Warn}
    /\ Goto(t, "return", frame[t])
    /\ UNCHANGED <<conf, files, io, log_mutex, process, ncalls, time_reads>>

\* a plausible slip: error logs and returns like warn
error_noexit(t) ==
    /\ At(t, "post")
    /\ frame[t].level = Error
    /\ Goto(t, "return", frame[t])
    /\ UNCHANGED <<conf, files, io, log_mutex, process, ncalls, time_reads>>

\* error, line 639: exit(EXIT_FAILURE).  exit destroys the static objects:
\* Logger::output_file is closed and std::cout is flushed.
error_exit(t) ==
    /\ At(t, "post")
    /\ frame[t].level = Error
    /\ process' = "exit_failure"
    /\ device' =
         LET f == DeviceOf("output_file")
             d1 == [device EXCEPT !["console"] = @ \o put_area["cout"]]
         IN  IF f = "" THEN d1
             ELSE [d1 EXCEPT ![f] = @ \o put_area["output_file"]]
    /\ put_area' = [put_area EXCEPT !["cout"] = <<>>,
                                    !["output_file"] = <<>>]
    /\ output_file' = [is_open |-> FALSE, path |-> ""]
    /\ UNCHANGED <<conf, output_file_name, log_mutex, pc, frame, ncalls,
                   quota, time_reads>>

\* fatal, line 670: abort().  Nothing is flushed or closed.
fatal_abort(t) ==
    /\ At(t, "post")
    /\ frame[t].level = Fatal
    /\ process' = "abort"
    /\ UNCHANGED <<conf, files, io, log_mutex, pc, frame, ncalls, quota,
                   time_reads>>

\* the operation returns to its caller
return_to_caller(t) ==
    /\ At(t, "return")
    /\ Goto(t, "idle", NoFrame)
    /\ UNCHANGED <<conf, files, io, log_mutex, process, ncalls, time_reads>>

(***************************************************************************)
(* The sequential specification: one thread makes any sequence of calls.   *)
(***************************************************************************)
Setters(t) ==
    \/ \E M \in Masks : call_set_type(t, M)
    \/ \E p \in Paths : call_set_output_file_name(t, p)
    \/ \E f \in DatetimeFormats : call_set_datetime_format(t, f)
    \/ \E s \in CallerStreams : call_set_output_buffer(t, s)
    \/ \E b \in BOOLEAN : call_set_is_color_output(t, b)
    \/ set_type(t)
    \/ set_output_file_name(t)
    \/ set_datetime_format(t)
    \/ set_output_buffer(t)
    \/ set_is_color_output(t)

LevelOps(t) ==
    \/ trace(t)
    \/ debug(t)
    \/ info(t)
    \/ error(t)
    \/ warn(t)
    \/ fatal(t)

LogSteps(t) ==
    \/ log_build(t)
    \/ log_lock(t)
    \/ log_write(t)
    \/ log_newline(t)
    \/ log_flush(t)
    \/ log_unlock(t)
    \/ level_done(t)
    \/ error_exit(t)
    \/ fatal_abort(t)
    \/ return_to_caller(t)

Next == Setters(Main) \/ LevelOps(Main) \/ LogSteps(Main)

Spec == Init /\ [][Next]_vars


(***************************************************************************)
(* The concurrent specification: the configuration is fixed before the     *)
(* threads start, and the threads only log.  (Changing the configuration   *)
(* while a call is in flight is a data race on the static members.)        *)
(***************************************************************************)
\* the configurations the threads start from: the default one, the one
\* after set_output_file_name("a.log"), the one after
\* set_output_buffer(custom); each with or without some levels masked
InitConc ==
    /\ log_type \in {All, LogTypeOr(Trace, LogTypeOr(Warn, Fatal))}
    /\ \/ /\ output_buffer = "cout"
          /\ is_color_output = TRUE
          /\ output_file_name = ""
          /\ output_file = [is_open |-> FALSE, path |-> ""]
       \/ /\ output_buffer = "output_file"
          /\ is_color_output = FALSE
          /\ output_file_name = "a.log"
          /\ output_file = [is_open |-> TRUE, path |-> "a.log"]
       \/ /\ output_buffer = "custom"
          /\ is_color_output = TRUE
          /\ output_file_name = ""
          /\ output_file = [is_open |-> FALSE, path |-> ""]
    /\ datetime_format = default_datetime_format
    /\ log_mutex = 0
    /\ put_area = [s \in Streams |-> <<>>]
    /\ device = [d \in Devices |-> <<>>]
    /\ process = "running"
    /\ pc = [t \in Threads |-> "idle"]
    /\ frame = [t \in Threads |-> NoFrame]
    /\ ncalls = 0
    /\ quota = MaxConcCalls
    /\ time_reads = 0

ConcOps(t) ==
    \/ trace(t)
    \/ warn(t)
    \/ error(t)
    \/ fatal(t)

NextConc == \E t \in Threads : ConcOps(t) \/ LogSteps(t)

SpecConc == InitConc /\ [][NextConc]_vars

\* Scheduling: a thread that is inside a call and can take its next step
\* takes it at some time.  std::mutex promises no order among the threads
\* waiting for it, so the fairness is weak; no caller is obliged to start a
\* call.
Fairness == \A t \in Threads : WF_vars(LogSteps(t))

\* the threads log in the configuration the program starts with
InitFair == InitConc /\ log_type = All /\ output_buffer = "cout"

SpecConcFair == InitFair /\ [][NextConc]_vars /\ Fairness

(***************************************************************************)
(* The formatter specification: a call of a level operation with any       *)
(* format string and arguments within the bounds has passed the level      *)
(* test in the default configuration and runs to its end.                  *)
(***************************************************************************)
FmtChars == {"{", "}", "a"}
ArgTexts == {<<"x">>, <<"y">>, <<"{", "}">>}

SeqsUpTo(S, n) == UNION {[1..k -> S] : k \in 0..n}

FmtOps == {<<"trace", Trace>>, <<"error", Error>>, <<"fatal", Fatal>>}

InitFmt ==
    /\ log_type = All
    /\ output_file_name = ""
    /\ output_buffer = "cout"
    /\ is_color_output = TRUE
    /\ datetime_format = default_datetime_format
    /\ log_mutex = 0
    /\ output_file = [is_open |-> FALSE, path |-> ""]
    /\ put_area = [s \in Streams |-> <<>>]
    /\ device = [d \in Devices |-> <<>>]
    /\ process = "running"
    /\ \E o \in FmtOps, f \in SeqsUpTo(FmtChars, MaxFmtLen),
          a \in SeqsUpTo(ArgTexts, MaxArgs) :
          /\ pc = [t \in Threads |-> IF t = Main THEN "log" ELSE "idle"]
          /\ frame = [t \in Threads |->
                        IF t = Main THEN LogFrame(o[1], o[2], f, a, 1)
                        ELSE NoFrame]
    /\ ncalls = 1
    /\ quota = 1
    /\ time_reads = 0

NextFmt == LogSteps(Main)

SpecFmt == InitFmt /\ [][NextFmt]_vars


(***************************************************************************)
(* Vocabulary of the properties.                                           *)
(***************************************************************************)
LevelOpNames == {"trace", "debug", "info", "error", "warn", "fatal"}
QuietLevels == {Trace, Debug, Info, Warn}

\* bit L (a power of two) is set in M, by arithmetic
HasBit(M, L) == (M \div L) % 2 = 1

\* thread t is inside Logger::log, or just out of it
InLog(t) ==
    pc[t] \in {"log", "lock", "write", "newline", "flush", "unlock", "post"}

\* the call thread t is in has handed a line to the output stream
Logged(t) == InLog(t) \/ (pc[t] = "return" /\ frame[t].stream # "")

\* thread t is in a call of a level operation that found its level masked
Masked(t) ==
    /\ frame[t].op \in LevelOpNames
    /\ ~HasBit(log_type, frame[t].level)

\* sequence q holds a chunk of call id / the whole line of call id
HasChunk(q, id) == \E i \in 1..Len(q) : q[i].id = id
HasLine(q, id, ss) ==
    \E i \in 1..(Len(q) - 1) :
        /\ q[i] = Chunk(id, ss)
        /\ q[i + 1] = Chunk(id, <<"\n">>)

(***************************************************************************)
(* C1: after set_type(M), a call of the operation of level L hands a line  *)
(* to the output stream if and only if L's bit is in M; a union A | B      *)
(* enables exactly the levels of A and of B, each level on its own.        *)
(***************************************************************************)
C1_FilterTable ==
    \A M \in LogTypes, L \in Levels : LogTypeAnd(M, L) <=> HasBit(M, L)

C1_UnionTable ==
    \A A \in Masks, B \in Masks, L \in Levels :
        LogTypeAnd(LogTypeOr(A, B), L) <=> (HasBit(A, L) \/ HasBit(B, L))

C1_LevelFilter ==
    /\ C1_FilterTable
    /\ C1_UnionTable
    /\ \A t \in Threads :
          frame[t].op \in LevelOpNames =>
              (Logged(t) <=> HasBit(log_type, frame[t].level))

\* under Error | Info an info call has logged and returned
C1_Witness ==
    /\ log_type = LogTypeOr(Error, Info)
    /\ pc[Main] = "return"
    /\ frame[Main].op = "info"
    /\ frame[Main].stream # ""

(***************************************************************************)
(* C2: a call of a level operation whose level is masked changes nothing:  *)
(* no stream or device, no configuration field, no clock read, no message  *)
(* built, the process keeps running - for error and fatal too.             *)
(***************************************************************************)
C2_MaskedCallIsSilent ==
    [][\A t \in Threads :
          (Masked(t) \/ (pc[t] = "idle" /\ Masked(t)')) =>
              /\ UNCHANGED <<conf, files, io, log_mutex, process, time_reads>>
              /\ frame'[t].ss = <<>>
              /\ pc'[t] \in {"return", "idle"}
              /\ process' = "running"]_vars

\* a masked fatal call is about to return, the process still running
C2_Witness ==
    /\ pc[Main] = "return"
    /\ frame[Main].op = "fatal"
    /\ ~HasBit(log_type, Fatal)
    /\ process = "running"

(***************************************************************************)
(* C3: an active trace, debug, info or warn call writes its line and       *)
(* returns with the process running; an active error call writes its line  *)
(* and then the process exits with a failure status; an active fatal call  *)
(* writes its line and then the process aborts; nothing else ends the      *)
(* process.                                                                *)
(***************************************************************************)
C3_Ended ==
    /\ process = "exit_failure" =>
          \E t \in Threads : pc[t] = "post" /\ frame[t].level = Error
    /\ process = "abort" =>
          \E t \in Threads : pc[t] = "post" /\ frame[t].level = Fatal
    /\ \A t \in Threads :
          /\ pc[t] = "post" => frame[t].stream # ""
          /\ (pc[t] = "return" /\ Logged(t)) =>
                frame[t].level \in QuietLevels /\ process = "running"

C3_Step ==
    \A t \in Threads :
        (pc[t] = "post" /\ <<pc[t], process>>' # <<pc[t], process>>) =>
            CASE frame[t].level \in QuietLevels ->
                    pc'[t] = "return" /\ process' = "running"
              [] frame[t].level = Error ->
                    pc'[t] = "post" /\ process' = "exit_failure"
              [] frame[t].level = Fatal ->
                    pc'[t] = "post" /\ process' = "abort"

C3_PostActions == [](C3_Ended) /\ [][C3_Step]_vars

\* an active fatal call has aborted the process
C3_Witness ==
    /\ process = "abort"
    /\ frame[Main].op = "fatal"
    /\ pc[Main] = "post"

(***************************************************************************)
(* C4: on every path that ends the process - an active error call, an      *)
(* active fatal call, the error raised by a failed set_output_file_name -  *)
(* the line of the call that ends it has reached a device before the       *)
(* process ends.                                                           *)
(***************************************************************************)
C4_FlushBeforeExit ==
    \A t \in Threads :
        (process # "running" /\ pc[t] = "post") =>
            \E d \in Devices : HasLine(device[d], frame[t].id, frame[t].ss)

(***************************************************************************)
(* C5: threads logging at once, the configuration fixed.  In every stream  *)
(* and device the chunks pair up: the text of a call is followed at once   *)
(* by the line terminator of the same call; every text is the line of one  *)
(* level operation; no call appears twice.  When all calls have returned,  *)
(* the target holds one whole line per call that logged, and no other      *)
(* device holds anything.                                                  *)
(***************************************************************************)
NewLine == <<"\n">>

\* the lines the callers of the model can produce in this configuration
UserLines ==
    {Line(LevelName(L), LevelColor(L), UserFormat, UserArgs) : L \in Levels}

\* q is a sequence of whole lines, the last one possibly still without its
\* terminator
Paired(q) ==
    \A i \in 1..Len(q) :
        IF i % 2 = 1
        THEN /\ q[i].text \in UserLines
             /\ i < Len(q) => q[i + 1] = Chunk(q[i].id, NewLine)
             /\ \A j \in 1..Len(q) : (j # i /\ j % 2 = 1) => q[j].id # q[i].id
        ELSE q[i].text = NewLine

C5_LinesAreAtomic ==
    process = "running" =>
        /\ \A st \in Streams : Paired(put_area[st])
        /\ \A d \in Devices : Paired(device[d]) /\ Len(device[d]) % 2 = 0
        /\ (\A t \in Threads : pc[t] = "idle") =>
              /\ Len(device[DeviceOf(output_buffer)]) = 2 * time_reads
              /\ \A d \in Devices \ {DeviceOf(output_buffer)} :
                    device[d] = <<>>
              /\ \A st \in Streams : put_area[st] = <<>>

\* two calls were in flight together: the line of the call invoked second
\* is in the file before the line of the call invoked first
C5_Witness ==
    /\ process = "running"
    /\ \A t \in Threads : pc[t] = "idle"
    /\ Len(device["a.log"]) = 4
    /\ device["a.log"][1].id = 2
    /\ device["a.log"][3].id = 1

(***************************************************************************)
(* C6: once the open in set_output_file_name has failed, the call never    *)
(* returns to its caller: it is on its way through the error report or     *)
(* the process has ended.                                                  *)
(***************************************************************************)
C6_FailedOpenNeverReturns ==
    \A t \in Threads :
        (frame[t].op = "set_output_file_name" /\ frame[t].arg \notin Files)
            => pc[t] # "return"

(***************************************************************************)
(* C7: one active target.  A successful set_output_file_name(p) leaves     *)
(* the owned file open at p as the target, with color off;                 *)
(* set_output_buffer(s) leaves s as the target whatever it was before; a   *)
(* line logged while a target is selected reaches that target's device     *)
(* whole, and no chunk of it is in any other device or left in a stream.   *)
(***************************************************************************)
C7_Delivered ==
    \A t \in Threads :
        (process = "running" /\ pc[t] \in {"unlock", "post", "return"}
         /\ frame[t].stream # "") =>
            LET target == DeviceOf(output_buffer) IN
            /\ target # "" =>
                  HasLine(device[target], frame[t].id, frame[t].ss)
            /\ \A d \in Devices \ {target} : ~HasChunk(device[d], frame[t].id)
            /\ \A st \in Streams : ~HasChunk(put_area[st], frame[t].id)

C7_Selected ==
    \A t \in Threads :
        /\ (pc[t] = "set_output_file_name" /\ pc'[t] = "return"
            /\ frame[t].arg \in Files) =>
              /\ output_buffer' = "output_file"
              /\ output_file' = [is_open |-> TRUE, path |-> frame[t].arg]
              /\ is_color_output' = FALSE
        /\ (pc[t] = "set_output_buffer" /\ pc'[t] = "return") =>
              output_buffer' = frame[t].arg

TokenStarts(f) == {i \in 1..(Len(f) - 1) : f[i] = "{" /\ f[i + 1] = "}"}

\* how many tokens start before position i
TokensBefore(f, i) == Cardinality({j \in TokenStarts(f) : j < i})

\* what position i of the format contributes to the message
Piece(f, a, i) ==
    IF i \in TokenStarts(f) /\ TokensBefore(f, i) < Len(a)
        THEN a[TokensBefore(f, i) + 1]
    ELSE IF (i - 1) \in TokenStarts(f) /\ TokensBefore(f, i - 1) < Len(a)
        THEN <<>>
    ELSE <<f[i]>>

RECURSIVE Pieces(_, _, _)
Pieces(f, a, i) ==
    IF i > Len(f) THEN <<>> ELSE Piece(f, a, i) \o Pieces(f, a, i + 1)

Substituted(f, a) == Pieces(f, a, 1)

Min(x, y) == IF x <= y THEN x ELSE y

RECURSIVE SumLen(_, _)
SumLen(a, n) == IF n = 0 THEN 0 ELSE Len(a[n]) + SumLen(a, n - 1)

C8_FormatterResult ==
    \A t \in Threads :
        (frame[t].op \in LevelOpNames /\ pc[t] \notin {"idle", "log"}
         /\ frame[t].stream # "") =>
            LET f == frame[t].format
                a == frame[t].args
                used == Min(Cardinality(TokenStarts(f)), Len(a))
                head == Heading(LevelName(frame[t].level),
                                LevelColor(frame[t].level))
                msg == Drop(frame[t].ss, Len(head))
            IN  /\ frame[t].ss = head \o Substituted(f, a)
                /\ Len(msg) = Len(f) - 2 * used + SumLen(a, used)

\* two tokens, one argument: the first is replaced, the second copied
C8_Witness ==
    /\ pc[Main] = "return"
    /\ frame[Main].format = <<"{", "}", "{", "}">>
    /\ frame[Main].args = << <<"x">> >>
    /\ Drop(frame[Main].ss, Len(frame[Main].ss) - 3) = <<"x", "{", "}">>

(***************************************************************************)
(* C9: set_type(M) makes the level set exactly M whatever it was before,   *)
(* and a second set_type(M) changes nothing.                               *)
(***************************************************************************)
C9_SetTypeReplaces ==
    [][\A t \in Threads :
          (pc[t] = "set_type" /\ pc'[t] = "return") =>
              /\ log_type' = frame[t].arg
              /\ \A L \in Levels :
                    HasBit(log_type', L) <=> HasBit(frame[t].arg, L)
              /\ frame[t].arg = log_type =>
                    UNCHANGED <<conf, files, io, process>>]_vars

\* set_type(Trace) has run: of the bits set before only Trace is left
C9_Witness ==
    /\ pc[Main] = "return"
    /\ frame[Main].op = "set_type"
    /\ frame[Main].arg = Trace
    /\ log_type = Trace

(***************************************************************************)
(* C10: the owned file is open only while it is the active target: once    *)
(* another stream is selected, the file opened before is closed.           *)
(***************************************************************************)
C10_OwnedFileClosedOnChange ==
    output_file.is_open => output_buffer = "output_file"

(***************************************************************************)
(* C11: every line handed to a stream is [<LEVEL> <timestamp>] <message>   *)
(* and is followed by one line terminator; the timestamp is rendered with  *)
(* the datetime format in effect; the color code before "[" and the reset  *)
(* code after "]" are there if and only if the color flag is on.  The flag *)
(* is off after a successful set_output_file_name and only                 *)
(* set_is_color_output changes it afterwards, so a line written to the     *)
(* file with the flag still off holds no escape sequence.                  *)
(***************************************************************************)
EscapeCodes == {reset_color} \cup {LevelColor(L) : L \in Levels}

\* the plain heading of level L with timestamp ts
Bracket(L, ts) == <<"[", LevelName(L), " ", ts, "]">>

\* ss is a line of level L with message msg under color flag c
Shaped(ss, L, msg, c) ==
    LET ts == Strftime(datetime_format) IN
    IF c THEN ss = <<LevelColor(L)>> \o Bracket(L, ts) \o <<reset_color>>
                   \o <<" ">> \o msg
         ELSE /\ ss = Bracket(L, ts) \o <<" ">> \o msg
              /\ \A i \in 1..(Len(ss) - Len(msg)) : ss[i] \notin EscapeCodes

C11_Built ==
    \A t \in Threads :
        pc[t] \in {"lock", "write", "newline", "flush", "unlock", "post"} =>
            Shaped(frame[t].ss, frame[t].level,
                   print_to_stream(frame[t].format, frame[t].args),
                   is_color_output)

C11_Step ==
    \A t \in Threads :
        /\ (pc[t] = "write" /\ pc'[t] = "newline" /\ Usable(output_buffer)) =>
              put_area'[output_buffer] =
                  Append(put_area[output_buffer],
                         Chunk(frame[t].id, frame[t].ss))
        /\ (pc[t] = "newline" /\ pc'[t] = "flush" /\ Usable(output_buffer)) =>
              /\ Len(put_area[output_buffer]) >= 1
              /\ put_area[output_buffer][Len(put_area[output_buffer])] =
                    Chunk(frame[t].id, frame[t].ss)
              /\ put_area'[output_buffer] =
                    Append(put_area[output_buffer],
                           Chunk(frame[t].id, <<"\n">>))
        /\ (pc[t] = "set_output_file_name" /\ pc'[t] = "return"
            /\ frame[t].arg \in Files) => is_color_output' = FALSE
        /\ is_color_output' # is_color_output =>
              \/ pc[Main] = "set_is_color_output"
                 /\ is_color_output' = frame[Main].arg
              \/ pc[Main] = "set_output_file_name" /\ is_color_output' = FALSE

C11_LineShape == [](C11_Built) /\ [][C11_Step]_vars

\* after set_output_file_name("a.log") and set_datetime_format("%H:%M:%S") a
\* trace line is in the file, plain and with the short timestamp
C11_Witness ==
    /\ pc[Main] = "return"
    /\ frame[Main].op = "trace"
    /\ ~is_color_output
    /\ HasLine(device["a.log"], frame[Main].id,
               <<"[", "TRACE", " ", "12:41:09", "]", " ", "m", "1">>)

(***************************************************************************)
(* C12: the frame of the operations.  set_type changes log_type and        *)
(* nothing else of the logger, set_datetime_format the datetime format,    *)
(* set_is_color_output the color flag, set_output_buffer the output target *)
(* (the color flag keeps its value); no step of a call of a level          *)
(* operation changes any of the four configuration fields.                 *)
(***************************************************************************)
\* thread t runs the body of setter op in this step
Runs(t, op) == pc[t] = op /\ pc'[t] = "return"

C12_Frame ==
    [][\A t \in Threads :
          /\ Runs(t, "set_type") =>
                /\ log_type' = frame[t].arg
                /\ UNCHANGED <<output_buffer, is_color_output,
                               datetime_format, files, io, process>>
          /\ Runs(t, "set_datetime_format") =>
                /\ datetime_format' = frame[t].arg
                /\ UNCHANGED <<log_type, output_buffer, is_color_output,
                               files, io, process>>
          /\ Runs(t, "set_is_color_output") =>
                /\ is_color_output' = frame[t].arg
                /\ UNCHANGED <<log_type, output_buffer, datetime_format,
                               files, io, process>>
          /\ Runs(t, "set_output_buffer") =>
                /\ output_buffer' = frame[t].arg
                /\ UNCHANGED <<log_type, is_color_output, datetime_format,
                               files, io, process>>
          /\ (frame[t].op \in LevelOpNames
              \/ frame'[t].op \in LevelOpNames) => UNCHANGED conf]_vars

\* the file was selected, which turned color off; set_output_buffer(cout)
\* has run since, and the flag is still off
C12_Witness ==
    /\ pc[Main] = "return"
    /\ frame[Main].op = "set_output_buffer"
    /\ frame[Main].arg = "cout"
    /\ output_buffer = "cout"
    /\ output_file.is_open
    /\ ~is_color_output

(***************************************************************************)
(* C13: at the start of the program the logger has all six levels          *)
(* active, the console as target, color on and the datetime format         *)
(* %Y-%m-%d %H:%M:%S, and only the body of a setter changes any of these;  *)
(* a first trace call made in that configuration puts exactly one colored  *)
(* line on the console and nothing in any file or other stream.            *)
(***************************************************************************)
SetterNames == {"set_type", "set_output_file_name", "set_datetime_format",
                "set_output_buffer", "set_is_color_output"}

DefaultConf ==
    /\ \A L \in Levels : HasBit(log_type, L)
    /\ output_buffer = "cout"
    /\ is_color_output = TRUE
    /\ datetime_format = "%Y-%m-%d %H:%M:%S"

C13_OnlySettersConfigure ==
    (conf' # conf) => \E t \in Threads : pc[t] \in SetterNames

C13_FirstTrace ==
    \A t \in Threads :
        (DefaultConf /\ output_file_name = "" /\ frame[t].op = "trace"
         /\ frame[t].id = 1 /\ pc[t] = "return") =>
            /\ device["console"] =
                  << Chunk(1, <<"\\033[1;37m", "[", "TRACE", " ",
                                "2023-12-31 12:41:09", "]", "\\033[0m", " ",
                                "m", "1">>),
                     Chunk(1, <<"\n">>) >>
            /\ \A d \in Devices \ {"console"} : device[d] = <<>>
            /\ \A st \in Streams : put_area[st] = <<>>
            /\ process = "running"

C13_Defaults ==
    /\ DefaultConf
    /\ [](C13_FirstTrace)
    /\ [][C13_OnlySettersConfigure]_vars

\* the first call of the run is a trace call and it has returned
C13_Witness ==
    /\ DefaultConf
    /\ output_file_name = ""
    /\ pc[Main] = "return"
    /\ frame[Main].op = "trace"
    /\ frame[Main].id = 1
    /\ time_reads = 1

(***************************************************************************)
(* C14: lock discipline and progress.  A thread holds log_mutex exactly    *)
(* while it writes, terminates and flushes its line: the line is complete  *)
(* and the clock read before the lock is taken, neither changes while it   *)
(* is held, and the thread has released it when its call returns or ends   *)
(* the process.  With fair scheduling every call that has started returns  *)
(* to its caller unless the process is ended first, so no thread waits for *)
(* the mutex forever.                                                      *)
(***************************************************************************)
Critical == {"write", "newline", "flush", "unlock"}

C14_Held ==
    /\ log_mutex \in Threads \cup {0}
    /\ \A t \in Threads :
          /\ log_mutex = t <=> pc[t] \in Critical
          /\ pc[t] \in Critical \cup {"lock"} =>
                frame[t].ss = Line(LevelName(frame[t].level),
                                   LevelColor(frame[t].level),
                                   frame[t].format, frame[t].args)
          /\ (process # "running" /\ pc[t] = "post") => log_mutex # t

C14_Step ==
    \A t \in Threads :
        /\ (log_mutex = t \/ log_mutex' = t) =>
              /\ frame'[t].ss = frame[t].ss
              /\ pc'[t] # pc[t] => time_reads' = time_reads
        /\ (log_mutex = t /\ log_mutex' # t) =>
              /\ log_mutex' = 0
              /\ pc[t] = "unlock"
              /\ HasLine(device[DeviceOf(output_buffer)], frame[t].id,
                         frame[t].ss)
              /\ put_area[output_buffer] = <<>>

C14_Completes ==
    \A t \in Threads :
        (pc[t] # "idle") ~> (pc[t] = "idle" \/ process # "running")

C14_LockProgress == [](C14_Held) /\ [][C14_Step]_vars /\ C14_Completes

\* one thread waits for the mutex while another, holding it, is about to
\* flush
C14_Witness ==
    \E t \in Threads, u \in Threads :
        /\ t # u
        /\ pc[t] = "lock"
        /\ frame[t].ss # <<>>
        /\ pc[u] = "flush"
        /\ log_mutex = u
        /\ process = "running"

(***************************************************************************)
(* C15: a set_output_file_name whose open fails and which returns to its   *)
(* caller leaves the logger as it was: the four configuration fields keep  *)
(* their values and the active target still writes to the device it wrote  *)
(* to before the call, also when that target is the file selected by an    *)
(* earlier successful set_output_file_name.                                *)
(***************************************************************************)
C15_FailedOpenKeepsTarget ==
    [][\A t \in Threads :
          (Runs(t, "set_output_file_name") /\ frame[t].arg \notin Files) =>
              /\ UNCHANGED conf
              /\ DeviceOf(output_buffer)' = DeviceOf(output_buffer)]_vars

(***************************************************************************)
(* C16: the text of an argument is never scanned for placeholders.  The    *)
(* i-th "{}" of the format string receives the i-th argument, whose text   *)
(* stands in the message verbatim at the place fixed by the format string  *)
(* and the lengths of the arguments before it - also when an argument is   *)
(* itself "{}" - and the message holds nothing beyond the format's own     *)
(* characters and the arguments its placeholders received.                 *)
(***************************************************************************)
\* the position in f of its i-th "{}" from the left
NthToken(f, i) == CHOOSE p \in TokenStarts(f) : TokensBefore(f, p) = i - 1

\* how many characters of the message precede the text of the i-th argument
ArgOffset(f, a, i) == (NthToken(f, i) - 1) - 2 * (i - 1) + SumLen(a, i - 1)

C16_ArgsVerbatim ==
    \A t \in Threads :
        pc[t] \in {"lock", "write", "newline", "flush", "unlock", "post",
                   "return"} =>
            LET f == frame[t].format
                a == frame[t].args
                k == Cardinality(TokenStarts(f))
                used == IF k <= Len(a) THEN k ELSE Len(a)
                msg == SubSeq(frame[t].ss, Len(frame[t].ss) + 1
                                 - (Len(f) - 2 * used + SumLen(a, used)),
                              Len(frame[t].ss))
            IN  /\ \A i \in 1..used :
                      SubSeq(msg, ArgOffset(f, a, i) + 1,
                             ArgOffset(f, a, i) + Len(a[i])) = a[i]
                /\ frame[t].ss =
                      Heading(LevelName(frame[t].level),
                              LevelColor(frame[t].level)) \o msg

\* the first argument is "{}": it stands verbatim, and the second
\* placeholder of the format receives the second argument
C16_Witness ==
    /\ pc[Main] = "return"
    /\ frame[Main].format = <<"{", "}", "{", "}">>
    /\ frame[Main].args = << <<"{", "}">>, <<"x">> >>
    /\ Drop(frame[Main].ss, Len(frame[Main].ss) - 3) = <<"{", "}", "x">>
    /\ HasLine(device["console"], frame[Main].id, frame[Main].ss)

====
